---- MODULE Spec2Model ----
(***************************************************************************)
(* FocusGuard: the session tracker hook (useSessionTracking, countdown     *)
(* version) together with the wiring that feeds it: the 1 Hz interval and  *)
(* the hydration interval armed by startSession, and the camera detection  *)
(* loop of CameraFeed that calls App.handleDetectionUpdate; the            *)
(* SessionTypeModal through which the App starts a session; and the        *)
(* FaceDetector whose results the detection loop reports.                  *)
(*                                                                         *)
(* React semantics kept by the model:                                      *)
(*  - useState values are the committed state; a handler is one atomic     *)
(*    step and a render is flushed between two handlers;                   *)
(*  - a function created during a render reads the useState values of THAT *)
(*    render.  The detection loop keeps the onDetectionUpdate it was       *)
(*    started with (variable cb), the interval callback keeps the          *)
(*    handleSessionComplete of the render that called startSession (fields *)
(*    ctype and csummary of a timer);                                      *)
(*  - useRef values (currentStateRef, lastUpdateTimeRef, intervalRef,      *)
(*    waterIntervalRef) are shared by all renders;                         *)
(*  - functional updaters (prev => ...) act on the committed state and run  *)
(*    once (production build, no StrictMode double invocation);            *)
(*  - window.electronAPI.notify is taken to be present: a notification is  *)
(*    recorded in emitted whenever the code reaches the notify call.       *)
(*                                                                         *)
(* Time is Date.now() in milliseconds.  The accumulators focusedTime,      *)
(* distractedTime and awayTime are kept in milliseconds (the code stores   *)
(* delta / 1000, a real number of seconds); sessionDuration, targetDuration*)
(* and remainingTime are whole seconds as in the code.  Confidence is in   *)
(* thousandths (0.6 is 600).  null is modelled by Null.                    *)
(***************************************************************************)
EXTENDS Integers, FiniteSets, Sequences, TLC

VARIABLES
  \* useState of useSessionTracking
  sessionActive, sessionStartTime, sessionDuration,
  focusedTime, distractedTime, awayTime,
  sessionType, targetDuration, remainingTime,
  awayStartTime, awayNotificationShown,
  \* useRef of useSessionTracking
  currentStateRef, lastUpdateTimeRef, intervalRef, waterIntervalRef,
  \* the host: clock, armed intervals, camera loop and the closure it holds
  now, timers, nextTimerId, cameraOn, cb,
  \* useState of App and of SessionTypeModal
  showSessionModal, customDuration, error,
  \* fields of the FaceDetector held by CameraFeed
  isInitialized, detector, lastDetectionTime,
  \* observation of the run (not program state)
  emitted, returned, lastOp, lastEv, lastCfg, calls,
  ticksSinceStart, completeNotifs, periodStart, periodNotifs,
  results, resultTime,
  \* a tick and a detection update taken in both orders from one state
  probe,
  \* an instance of the early useSessionTracking given the same calls
  early

hookState == <<sessionActive, sessionStartTime, sessionDuration,
               focusedTime, distractedTime, awayTime,
               sessionType, targetDuration, remainingTime,
               awayStartTime, awayNotificationShown>>
hookRefs == <<currentStateRef, lastUpdateTimeRef, intervalRef, waterIntervalRef>>
host == <<now, timers, nextTimerId, cameraOn, cb>>
modal == <<showSessionModal, customDuration, error>>
faceDetector == <<isInitialized, detector, lastDetectionTime>>
observed == <<emitted, returned, lastOp, lastEv, lastCfg, calls,
              ticksSinceStart, completeNotifs, periodStart, periodNotifs,
              results, resultTime>>
\* the detector and what was seen of its latest call
detection == <<faceDetector, results, resultTime>>
vars == <<hookState, hookRefs, host, modal, faceDetector, observed, probe,
          early>>

Null == -1

----------------------------------------------------------------------------
(* Bounds of the model *)

MaxSeconds == 2          \* the clock of Spec runs this many seconds
MaxCalls == 5            \* calls made by the user and the camera in a run of Spec
MaxAwaySeconds == 11     \* the clock of SpecAway runs this many seconds
MaxAwayCalls == 7        \* calls made in a run of SpecAway
ClockOrigin == 1000      \* Date.now() when the page is loaded
MaxFocusSeconds == 10    \* the clock of SpecFocused runs this many seconds
MaxInputLen == 3         \* characters typed into the custom duration field
MaxWaterSeconds == 3601  \* the clock of SpecWater runs this many seconds
MaxWaterCalls == 3       \* calls made in a run of SpecWater
MaxEventCalls == 3       \* calls made in a run of SpecAnyEvent
FrameStep == 50          \* milliseconds between two frames of the camera loop
MaxFrames == 5           \* frames' worth of time in a run of the detector
MaxDetectorCalls == 5    \* calls made in a run of SpecDetector
MaxFrameCalls == 5       \* calls made in a run of SpecFrames
MaxBothCalls == 4        \* calls made on both hooks in a run of SpecBoth
MaxProbeCalls == 3       \* calls made in a run of SpecCommute

(* Program constants *)

TickPeriod == 1000                  \* setInterval(..., 1000)
WaterPeriod == 30 * 60 * 1000       \* setInterval(..., 30 * 60 * 1000)
FocusThreshold == 600               \* confidence >= 0.6
AwayNotifyMs == 10 * 1000           \* awaySeconds >= 10
PomodoroDuration == 25 * 60         \* SESSION_TYPES.pomodoro.duration

\* the clock is observed once per tick period
AdvanceSteps == {TickPeriod}
Horizon == ClockOrigin + MaxSeconds * 1000
AwayHorizon == ClockOrigin + MaxAwaySeconds * 1000
FocusHorizon == ClockOrigin + MaxFocusSeconds * 1000
DetectorHorizon == ClockOrigin + MaxFrames * FrameStep
WaterHorizon == ClockOrigin + MaxWaterSeconds * 1000

\* detection results handed to onDetectionUpdate: {faceDetected, confidence}
Confidences == {FocusThreshold - 1, FocusThreshold}
Events == [faceDetected : BOOLEAN, confidence : Confidences]
NoEvent == [faceDetected |-> FALSE, confidence |-> 0]

\* detect returning null
NullResult == [null |-> TRUE]

\* no comparison of the two orders is under way
NoProbe == [on |-> FALSE]

\* objects handed to updateFocusState by a caller other than the camera loop:
\* either field may be missing
PartialEvents == [faceDetected : BOOLEAN] \cup [confidence : Confidences]
                   \cup {[other |-> 0]}
AnyEvents == Events \cup PartialEvents

\* session configurations handed to startSession: a preset, and custom
\* durations short enough for the countdown to reach zero (the hook takes any
\* duration in seconds; the modal only produces whole minutes)
Configs == {[type |-> "pomodoro", duration |-> PomodoroDuration]}
           \cup {[type |-> "custom", duration |-> d] : d \in {1, 2}}
NoConfig == [type |-> "none", duration |-> 0]

Min(a, b) == IF a <= b THEN a ELSE b

----------------------------------------------------------------------------
(* Helpers translated from the hook *)

\* JavaScript !x for a value that is a number or null
Falsy(x) == x = Null \/ x = 0

\* Classify with the boundary excluded: confidence > 0.6
Classify_strict(ev) ==
  IF ev.faceDetected
    THEN IF ev.confidence > FocusThreshold THEN "focused" ELSE "distracted"
    ELSE "away"

\* object.field of JavaScript used as a condition: a missing field is
\* undefined, which is falsy
Has(object, field) == field \in DOMAIN object
Truthy(object, field) == Has(object, field) /\ object[field]

\* undefined >= 0.6 is false
AtLeast(object, field, threshold) ==
  Has(object, field) /\ object[field] >= threshold

\* Classify with faceDetected tested as !== false
Classify_unlessFalse(ev) ==
  IF Has(ev, "faceDetected") /\ ~ev.faceDetected
    THEN "away"
    ELSE IF AtLeast(ev, "confidence", FocusThreshold)
      THEN "focused" ELSE "distracted"

\* updateFocusState, classification of the detection result
Classify(ev) ==
  IF Truthy(ev, "faceDetected")
    THEN IF AtLeast(ev, "confidence", FocusThreshold)
      THEN "focused" ELSE "distracted"
    ELSE "away"

\* Accumulated without the final else: time spent away is not credited
Accumulated_dropAway(prevState, delta) ==
  IF prevState = "focused"
    THEN <<focusedTime + delta, distractedTime, awayTime>>
    ELSE IF prevState = "distracted"
      THEN <<focusedTime, distractedTime + delta, awayTime>>
      ELSE <<focusedTime, distractedTime, awayTime>>

\* Accumulated with the first two buckets exchanged
Accumulated_swapped(prevState, delta) ==
  IF prevState = "focused"
    THEN <<focusedTime, distractedTime + delta, awayTime>>
    ELSE IF prevState = "distracted"
      THEN <<focusedTime + delta, distractedTime, awayTime>>
      ELSE <<focusedTime, distractedTime, awayTime + delta>>

\* updateFocusState, the bucket that receives delta: <<focused, distracted, away>>
Accumulated(prevState, delta) ==
  IF prevState = "focused"
    THEN <<focusedTime + delta, distractedTime, awayTime>>
    ELSE IF prevState = "distracted"
      THEN <<focusedTime, distractedTime + delta, awayTime>>
      ELSE <<focusedTime, distractedTime, awayTime + delta>>

\* CountdownDone one tick late: prev <= 0
CountdownDone_late(prev) == prev <= 0

\* the interval callback's test on the previous remainingTime
CountdownDone(prev) == prev <= 1

\* updateFocusState, the debounce test of the "come back" notification
AwayLongEnough(awayMs) == awayMs >= AwayNotifyMs

\* if (ref.current) clearInterval(ref.current)
ClearInterval(ts, ref) == IF Falsy(ref) THEN ts ELSE {t \in ts : t.id # ref}

\* the closure a render hands out: the useState values updateFocusState reads
RenderView == [sessionActive |-> sessionActive,
               awayStartTime |-> awayStartTime,
               awayNotificationShown |-> awayNotificationShown]

\* focusScore of a render with the given state, in thousandths of a percent:
\* focused is kept in milliseconds where the code keeps seconds, so
\* (focused / 1000 / elapsed) * 100 percent is focused * 100 / elapsed here
Score(focused, elapsed) ==
  IF elapsed > 0 THEN (focused * 100) \div elapsed ELSE 0

focusScore == Score(focusedTime, sessionDuration)

\* the object stopSession returns, built from the useState values of the
\* render that created this stopSession
Summary == [duration |-> sessionDuration,
            focusedTime |-> focusedTime,
            distractedTime |-> distractedTime,
            awayTime |-> awayTime,
            focusScore |-> focusScore]

\* no stopSession call returned in this step
NoSummary == [duration |-> Null, focusedTime |-> Null, distractedTime |-> Null,
              awayTime |-> Null, focusScore |-> Null]

TickTimers == {t \in timers : t.kind = "tick"}
WaterTimers == {t \in timers : t.kind = "water"}
Dues == {t.due : t \in timers}
NextDue == IF Dues = {} THEN now + WaterPeriod
           ELSE CHOOSE d \in Dues : \A e \in Dues : d <= e

\* no call is waiting to be made on the countdown hook
NoCall == [op |-> "none"]

\* the early useSessionTracking after construction: its useState values, its
\* refs, its armed intervals, what its stopSession returned last, and the
\* call made on it that the countdown hook has not been given yet
EarlyInit ==
  [sessionActive |-> FALSE, sessionStartTime |-> Null, sessionDuration |-> 0,
   focusedTime |-> 0, distractedTime |-> 0, awayTime |-> 0,
   currentStateRef |-> "away", lastUpdateTimeRef |-> Null,
   intervalRef |-> Null, timers |-> {}, returned |-> NoSummary,
   pending |-> NoCall, mark |-> <<0, 0>>]

----------------------------------------------------------------------------
Init ==
  /\ sessionActive = FALSE
  /\ sessionStartTime = Null
  /\ sessionDuration = 0
  /\ focusedTime = 0
  /\ distractedTime = 0
  /\ awayTime = 0
  /\ sessionType = "none"
  /\ targetDuration = 0
  /\ remainingTime = 0
  /\ awayStartTime = Null
  /\ awayNotificationShown = FALSE
  /\ currentStateRef = "away"
  /\ lastUpdateTimeRef = Null
  /\ intervalRef = Null
  /\ waterIntervalRef = Null
  /\ now = ClockOrigin
  /\ timers = {}
  /\ nextTimerId = 1
  /\ cameraOn = FALSE
  /\ cb = [sessionActive |-> FALSE, awayStartTime |-> Null,
           awayNotificationShown |-> FALSE]
  /\ showSessionModal = FALSE
  /\ customDuration = <<>>
  /\ error = ""
  /\ emitted = <<>>
  /\ returned = NoSummary
  /\ lastOp = "init"
  /\ lastEv = NoEvent
  /\ lastCfg = NoConfig
  /\ calls = 0
  /\ ticksSinceStart = 0
  /\ completeNotifs = 0
  /\ periodStart = Null
  /\ periodNotifs = 0
  /\ isInitialized = FALSE
  /\ detector = FALSE
  /\ lastDetectionTime = 0
  /\ results = NullResult
  /\ resultTime = Null
  /\ probe = NoProbe
  /\ early = EarlyInit

----------------------------------------------------------------------------
(* startSession(sessionConfig) *)

\* StartMetrics without setAwayTime(0)
StartMetrics_leak(cfg) ==
  /\ sessionActive' = TRUE
  /\ sessionStartTime' = now
  /\ sessionType' = cfg.type
  /\ targetDuration' = cfg.duration
  /\ remainingTime' = cfg.duration
  /\ sessionDuration' = 0
  /\ focusedTime' = 0
  /\ distractedTime' = 0
  /\ awayTime' = awayTime
  /\ awayStartTime' = Null
  /\ awayNotificationShown' = FALSE
  /\ currentStateRef' = "away"
  /\ lastUpdateTimeRef' = now

\* StartMetrics with the classification starting as 'focused'
StartMetrics_startFocused(cfg) ==
  /\ sessionActive' = TRUE
  /\ sessionStartTime' = now
  /\ sessionType' = cfg.type
  /\ targetDuration' = cfg.duration
  /\ remainingTime' = cfg.duration
  /\ sessionDuration' = 0
  /\ focusedTime' = 0
  /\ distractedTime' = 0
  /\ awayTime' = 0
  /\ awayStartTime' = Null
  /\ awayNotificationShown' = FALSE
  /\ currentStateRef' = "focused"
  /\ lastUpdateTimeRef' = now

\* the useState setters and the two refs written by startSession
StartMetrics(cfg) ==
  /\ sessionActive' = TRUE
  /\ sessionStartTime' = now
  /\ sessionType' = cfg.type
  /\ targetDuration' = cfg.duration
  /\ remainingTime' = cfg.duration
  /\ sessionDuration' = 0
  /\ focusedTime' = 0
  /\ distractedTime' = 0
  /\ awayTime' = 0
  /\ awayStartTime' = Null
  /\ awayNotificationShown' = FALSE
  /\ currentStateRef' = "away"
  /\ lastUpdateTimeRef' = now

\* the two setInterval calls of startSession; the refs are overwritten, an
\* interval that was armed before stays armed.  The callbacks belong to the
\* render that called startSession: they keep its sessionType and its
\* stopSession, whose return value is view
StartTimers(view) ==
  /\ timers' = timers \cup
       {[id |-> nextTimerId, kind |-> "tick", due |-> now + TickPeriod,
         ctype |-> sessionType, csummary |-> view],
        [id |-> nextTimerId + 1, kind |-> "water", due |-> now + WaterPeriod,
         ctype |-> sessionType, csummary |-> view]}
  /\ intervalRef' = nextTimerId
  /\ waterIntervalRef' = nextTimerId + 1
  /\ nextTimerId' = nextTimerId + 2

\* view is Summary, or NoSummary in a specification that does not observe
\* the value handleSessionComplete gets from stopSession and drops
StartSessionCall(cfg, view) ==
  /\ StartMetrics(cfg)
  /\ StartTimers(view)
  /\ emitted' = <<>>
  /\ returned' = NoSummary
  /\ lastOp' = "start"
  /\ lastCfg' = cfg
  /\ calls' = calls + 1
  /\ ticksSinceStart' = 0
  /\ completeNotifs' = 0
  /\ periodStart' = Null
  /\ periodNotifs' = 0
  /\ UNCHANGED <<now, cameraOn, cb, lastEv, detection, probe, early>>

\* startSession called on the hook directly, the modal left as it is
StartSession(cfg, view) ==
  /\ StartSessionCall(cfg, view)
  /\ UNCHANGED modal

----------------------------------------------------------------------------
(* stopSession() *)

\* the state written by stopSession, shared by the explicit call and by
\* handleSessionComplete; ts is the set of armed intervals to clear from
StopEffects(ts) ==
  /\ sessionActive' = FALSE
  /\ timers' = ClearInterval(ClearInterval(ts, intervalRef), waterIntervalRef)
  /\ intervalRef' = Null
  /\ waterIntervalRef' = Null
  /\ awayStartTime' = Null
  /\ awayNotificationShown' = FALSE

StopSession ==
  /\ StopEffects(timers)
  /\ returned' = Summary
  /\ emitted' = <<>>
  /\ lastOp' = "stop"
  /\ calls' = calls + 1
  /\ UNCHANGED <<sessionStartTime, sessionDuration, focusedTime, distractedTime,
                 awayTime, sessionType, targetDuration, remainingTime,
                 currentStateRef, lastUpdateTimeRef,
                 now, nextTimerId, cameraOn, cb, modal, detection, probe, early,
                 lastEv, lastCfg, ticksSinceStart,
                 completeNotifs, periodStart, periodNotifs>>

----------------------------------------------------------------------------
(* the callback of the 1 Hz interval, with handleSessionComplete *)

Rearm(t) == [t EXCEPT !.due = t.due + TickPeriod]

\* the updater of setRemainingTime without the floor at 0
NextRemainingTime_unfloored(prev) == prev - 1

\* the updater of setRemainingTime counting down two at a time
NextRemainingTime_skip(prev) == IF CountdownDone(prev) THEN 0 ELSE prev - 2

\* the updater given to setRemainingTime by the interval callback
NextRemainingTime(prev) == IF CountdownDone(prev) THEN 0 ELSE prev - 1

\* the updater of setSessionDuration applied twice for one tick
NextSessionDuration_twice(prev) == prev + 2

\* sessionDuration taken from the time credited so far instead of counted
NextSessionDuration_credited(prev) ==
  (lastUpdateTimeRef - sessionStartTime) \div TickPeriod + 1

\* the updater given to setSessionDuration by the interval callback
NextSessionDuration(prev) == prev + 1

Tick(t) ==
  /\ t \in TickTimers
  /\ now >= t.due
  /\ sessionDuration' = NextSessionDuration(sessionDuration)
  /\ remainingTime' = NextRemainingTime(remainingTime)
  /\ ticksSinceStart' = ticksSinceStart + 1
  /\ IF CountdownDone(remainingTime)
       THEN /\ StopEffects((timers \ {t}) \cup {Rearm(t)})
            /\ emitted' = <<<<"complete", t.ctype>>>>
            /\ returned' = t.csummary
            /\ completeNotifs' = completeNotifs + 1
            /\ lastOp' = "tickComplete"
       ELSE /\ timers' = (timers \ {t}) \cup {Rearm(t)}
            /\ emitted' = <<>>
            /\ returned' = NoSummary
            /\ lastOp' = "tick"
            /\ UNCHANGED <<sessionActive, intervalRef, waterIntervalRef,
                           awayStartTime, awayNotificationShown, completeNotifs>>
  /\ UNCHANGED <<sessionStartTime, focusedTime, distractedTime, awayTime,
                 sessionType, targetDuration, currentStateRef, lastUpdateTimeRef,
                 now, nextTimerId, cameraOn, cb, modal, detection, probe, early,
                 lastEv, lastCfg, calls, periodStart, periodNotifs>>

\* the callback of the hydration interval
WaterTick(t) ==
  /\ t \in WaterTimers
  /\ now >= t.due
  /\ timers' = (timers \ {t}) \cup {[t EXCEPT !.due = t.due + WaterPeriod]}
  /\ emitted' = <<<<"water", "none">>>>
  /\ returned' = NoSummary
  /\ lastOp' = "water"
  /\ UNCHANGED <<hookState, hookRefs, now, nextTimerId, cameraOn, cb,
                 modal, detection, probe, early,
                 lastEv, lastCfg, calls, ticksSinceStart, completeNotifs,
                 periodStart, periodNotifs>>

----------------------------------------------------------------------------
(* the clock *)

\* time passes; an interval that is due runs before the clock moves on
Advance(d, horizon) ==
  /\ now < Min(NextDue, horizon)
  /\ now' = Min(now + d, Min(NextDue, horizon))
  /\ emitted' = <<>>
  /\ returned' = NoSummary
  /\ lastOp' = "advance"
  /\ UNCHANGED <<hookState, hookRefs, timers, nextTimerId, cameraOn, cb,
                 modal, detection, probe, early, lastEv, lastCfg, calls, ticksSinceStart,
                 completeNotifs, periodStart, periodNotifs>>

----------------------------------------------------------------------------
(* CameraFeed: startCamera / stopCamera and the detection loop *)

\* startCamera -> onloadeddata -> startDetectionLoop: detectAndDraw keeps the
\* onDetectionUpdate prop of the render in which the camera was started
StartCamera ==
  /\ ~cameraOn
  /\ cameraOn' = TRUE
  /\ cb' = RenderView
  /\ calls' = calls + 1
  /\ emitted' = <<>>
  /\ returned' = NoSummary
  /\ lastOp' = "startCamera"
  /\ UNCHANGED <<hookState, hookRefs, now, timers, nextTimerId, modal, detection, probe, early,
                 lastEv, lastCfg, ticksSinceStart,
                 completeNotifs, periodStart, periodNotifs>>

StopCamera ==
  /\ cameraOn
  /\ cameraOn' = FALSE
  /\ emitted' = <<>>
  /\ returned' = NoSummary
  /\ lastOp' = "stopCamera"
  /\ calls' = calls + 1
  /\ UNCHANGED <<hookState, hookRefs, now, timers, nextTimerId, cb, modal, detection, probe, early,
                 lastEv, lastCfg, ticksSinceStart,
                 completeNotifs, periodStart, periodNotifs>>

\* updateFocusState(detectionResults) of the render whose state is view
UpdateFocusState(view, ev) ==
  LET newState == Classify(ev)
      delta == now - lastUpdateTimeRef
      acc == Accumulated(currentStateRef, delta)
      notify == /\ newState = "away"
                /\ ~Falsy(view.awayStartTime)
                /\ AwayLongEnough(now - view.awayStartTime)
                /\ ~view.awayNotificationShown
      opens == newState = "away" /\ periodStart = Null
  IN
  /\ focusedTime' = acc[1]
  /\ distractedTime' = acc[2]
  /\ awayTime' = acc[3]
  /\ IF newState = "away"
       THEN IF Falsy(view.awayStartTime)
              THEN /\ awayStartTime' = now
                   /\ UNCHANGED awayNotificationShown
              ELSE /\ awayNotificationShown' =
                        (IF notify THEN TRUE ELSE awayNotificationShown)
                   /\ UNCHANGED awayStartTime
       ELSE /\ awayStartTime' = Null
            /\ awayNotificationShown' = FALSE
  /\ currentStateRef' = newState
  /\ lastUpdateTimeRef' = now
  /\ emitted' = IF notify THEN <<<<"away", "none">>>> ELSE <<>>
  /\ periodStart' = IF newState # "away" THEN Null
                    ELSE IF opens THEN now ELSE periodStart
  /\ periodNotifs' = IF newState # "away" THEN 0
                     ELSE (IF opens THEN 0 ELSE periodNotifs)
                          + (IF notify THEN 1 ELSE 0)
  /\ lastOp' = "update"

\* one frame of detectAndDraw for which the detector returned a result:
\* onDetectionUpdate(detectionData) is App.handleDetectionUpdate of cb's render
OnDetectionUpdate(ev) ==
  /\ cameraOn
  /\ calls' = calls + 1
  /\ lastEv' = ev
  /\ returned' = NoSummary
  /\ IF cb.sessionActive /\ ~Falsy(lastUpdateTimeRef)
       THEN UpdateFocusState(cb, ev)
       ELSE /\ emitted' = <<>>
            /\ lastOp' = "frameIgnored"
            /\ UNCHANGED <<focusedTime, distractedTime, awayTime, awayStartTime,
                           awayNotificationShown, currentStateRef,
                           lastUpdateTimeRef, periodStart, periodNotifs>>
  /\ UNCHANGED <<sessionActive, sessionStartTime, sessionDuration, sessionType,
                 targetDuration, remainingTime, intervalRef, waterIntervalRef,
                 now, timers, nextTimerId, cameraOn, cb, modal, probe, early,
                 lastCfg, ticksSinceStart, completeNotifs>>

\* a frame with a result, the detector itself left out of the picture
Detection(ev) == OnDetectionUpdate(ev) /\ UNCHANGED detection

\* updateFocusState of the latest render called with an object by a caller
\* of the hook
UpdateFocusStateCall(ev) ==
  /\ calls' = calls + 1
  /\ lastEv' = ev
  /\ returned' = NoSummary
  /\ IF sessionActive /\ ~Falsy(lastUpdateTimeRef)
       THEN UpdateFocusState(RenderView, ev)
       ELSE /\ emitted' = <<>>
            /\ lastOp' = "frameIgnored"
            /\ UNCHANGED <<focusedTime, distractedTime, awayTime, awayStartTime,
                           awayNotificationShown, currentStateRef,
                           lastUpdateTimeRef, periodStart, periodNotifs>>
  /\ UNCHANGED <<sessionActive, sessionStartTime, sessionDuration, sessionType,
                 targetDuration, remainingTime, intervalRef, waterIntervalRef,
                 now, timers, nextTimerId, cameraOn, cb, modal, detection, probe, early,
                 lastCfg, ticksSinceStart, completeNotifs>>

----------------------------------------------------------------------------
(* A tick and a detection update that are both pending at one clock reading: *)
(* the interval callback and the frame callback are two tasks of the same    *)
(* event loop, which may run them in either order.  The probe takes them in  *)
(* one order, notes what the hook then shows, goes back to the state in      *)
(* which both were pending and takes them in the other order.                *)

\* what the hook shows of a session, and the notifications of the away period
Readings ==
  [sessionActive |-> sessionActive,
   sessionDuration |-> sessionDuration,
   remainingTime |-> remainingTime,
   focusedTime |-> focusedTime,
   distractedTime |-> distractedTime,
   awayTime |-> awayTime,
   currentStateRef |-> currentStateRef,
   lastUpdateTimeRef |-> lastUpdateTimeRef,
   awayStartTime |-> awayStartTime,
   awayNotificationShown |-> awayNotificationShown,
   periodNotifs |-> periodNotifs,
   completeNotifs |-> completeNotifs,
   timers |-> timers]

\* everything a tick or a detection update writes
Written ==
  [sessionActive |-> sessionActive,
   sessionDuration |-> sessionDuration,
   remainingTime |-> remainingTime,
   focusedTime |-> focusedTime,
   distractedTime |-> distractedTime,
   awayTime |-> awayTime,
   awayStartTime |-> awayStartTime,
   awayNotificationShown |-> awayNotificationShown,
   currentStateRef |-> currentStateRef,
   lastUpdateTimeRef |-> lastUpdateTimeRef,
   intervalRef |-> intervalRef,
   waterIntervalRef |-> waterIntervalRef,
   timers |-> timers,
   lastEv |-> lastEv,
   calls |-> calls,
   ticksSinceStart |-> ticksSinceStart,
   completeNotifs |-> completeNotifs,
   periodStart |-> periodStart,
   periodNotifs |-> periodNotifs]

\* the interval callback of timer t and a detection update with ev are both
\* pending while the session is active with more than one second to go
ProbeBegin(t, ev) ==
  /\ ~probe.on
  /\ sessionActive
  /\ remainingTime > 1
  /\ t \in TickTimers
  /\ now >= t.due
  /\ probe' = [on |-> TRUE, restored |-> FALSE, timer |-> t.id, ev |-> ev,
               before |-> Written]
  /\ emitted' = <<>>
  /\ returned' = NoSummary
  /\ lastOp' = "probe"
  /\ UNCHANGED <<hookState, hookRefs, host, modal, detection, early, lastEv,
                 lastCfg, calls, ticksSinceStart, completeNotifs, periodStart,
                 periodNotifs>>

\* the first order has been taken: note its outcome and go back
ProbeRestore ==
  /\ probe.on
  /\ ~probe.restored
  /\ lastOp \in {"update", "frameIgnored"}
  /\ probe' = [probe EXCEPT !.restored = TRUE] @@
               [first |-> Readings, notified |-> emitted]
  /\ sessionActive' = probe.before.sessionActive
  /\ sessionDuration' = probe.before.sessionDuration
  /\ remainingTime' = probe.before.remainingTime
  /\ focusedTime' = probe.before.focusedTime
  /\ distractedTime' = probe.before.distractedTime
  /\ awayTime' = probe.before.awayTime
  /\ awayStartTime' = probe.before.awayStartTime
  /\ awayNotificationShown' = probe.before.awayNotificationShown
  /\ currentStateRef' = probe.before.currentStateRef
  /\ lastUpdateTimeRef' = probe.before.lastUpdateTimeRef
  /\ intervalRef' = probe.before.intervalRef
  /\ waterIntervalRef' = probe.before.waterIntervalRef
  /\ timers' = probe.before.timers
  /\ lastEv' = probe.before.lastEv
  /\ calls' = probe.before.calls
  /\ ticksSinceStart' = probe.before.ticksSinceStart
  /\ completeNotifs' = probe.before.completeNotifs
  /\ periodStart' = probe.before.periodStart
  /\ periodNotifs' = probe.before.periodNotifs
  /\ emitted' = <<>>
  /\ returned' = NoSummary
  /\ lastOp' = "probe"
  /\ UNCHANGED <<sessionStartTime, sessionType, targetDuration, now,
                 nextTimerId, cameraOn, cb, modal, detection, early, lastCfg>>

\* the tick of the probe: first in the first order, last in the second
ProbeTick(t) ==
  /\ probe.on
  /\ t.id = probe.timer
  /\ \/ ~probe.restored /\ lastOp = "probe"
     \/ probe.restored /\ lastOp \in {"update", "frameIgnored"}
  /\ Tick(t)

\* the detection update of the probe: last in the first order, first in
\* the second
ProbeUpdate ==
  /\ probe.on
  /\ \/ ~probe.restored /\ lastOp = "tick"
     \/ probe.restored /\ lastOp = "probe"
  /\ UpdateFocusStateCall(probe.ev)

----------------------------------------------------------------------------
(* The early version of the hook (src/hooks/useSessionTracking.js), held in *)
(* the record early and given the same calls at the same clock readings as  *)
(* the countdown hook: each call is made on the early hook first and on the *)
(* countdown hook next.                                                     *)

\* early startSession(); id is the handle setInterval returns
EarlyStartSession(e, id) ==
  [e EXCEPT !.sessionActive = TRUE,
            !.sessionStartTime = now,
            !.sessionDuration = 0,
            !.focusedTime = 0,
            !.distractedTime = 0,
            !.awayTime = 0,
            !.currentStateRef = "away",
            !.lastUpdateTimeRef = now,
            !.intervalRef = id,
            !.timers = @ \cup {[id |-> id, due |-> now + TickPeriod]}]

\* early stopSession()
EarlyStopSession(e) ==
  [e EXCEPT !.sessionActive = FALSE,
            !.timers = ClearInterval(@, e.intervalRef),
            !.intervalRef = Null,
            !.returned = [duration |-> e.sessionDuration,
                          focusedTime |-> e.focusedTime,
                          distractedTime |-> e.distractedTime,
                          awayTime |-> e.awayTime,
                          focusScore |->
                            Score(e.focusedTime, e.sessionDuration)]]

\* the callback of the early interval with handle id
EarlyTick(e, id) ==
  [e EXCEPT !.sessionDuration = @ + 1,
            !.timers = {IF t.id = id THEN [t EXCEPT !.due = @ + TickPeriod]
                        ELSE t : t \in e.timers}]

\* early updateFocusState(detectionResults)
EarlyUpdateFocusState(e, ev) ==
  IF ~e.sessionActive \/ Falsy(e.lastUpdateTimeRef) THEN e
  ELSE LET delta == now - e.lastUpdateTimeRef IN
    [e EXCEPT !.focusedTime =
                 IF e.currentStateRef = "focused" THEN @ + delta ELSE @,
              !.distractedTime =
                 IF e.currentStateRef = "distracted" THEN @ + delta ELSE @,
              !.awayTime =
                 IF e.currentStateRef \notin {"focused", "distracted"}
                   THEN @ + delta ELSE @,
              !.currentStateRef = Classify(ev),
              !.lastUpdateTimeRef = now]

\* the call made on the early hook is still to be made on the countdown hook
EarlyAhead ==
  early.pending # NoCall /\ early.mark = <<calls, ticksSinceStart>>

\* a call made on the early hook
EarlyApply(e, call) ==
  IF call.op = "start" THEN EarlyStartSession(e, nextTimerId)
  ELSE IF call.op = "stop" THEN EarlyStopSession(e)
  ELSE IF call.op = "tick" THEN EarlyTick(e, call.id)
  ELSE EarlyUpdateFocusState(e, call.ev)

EarlyCall(call) ==
  /\ ~EarlyAhead
  /\ early' = [EarlyApply(early, call) EXCEPT
                 !.pending = call, !.mark = <<calls, ticksSinceStart>>]
  /\ UNCHANGED <<hookState, hookRefs, host, modal, faceDetector, observed,
                 probe>>

\* an interval of each hook armed by the same start comes due, the countdown
\* not reaching zero at this tick
EarlyTickDue(id) ==
  /\ \E t \in early.timers : t.id = id /\ now >= t.due
  /\ ~CountdownDone(remainingTime)
  /\ EarlyCall([op |-> "tick", id |-> id])

\* the same call made on the countdown hook
SameCall ==
  /\ EarlyAhead
  /\ \/ /\ early.pending.op = "start"
        /\ StartSession(early.pending.cfg, NoSummary)
     \/ /\ early.pending.op = "stop"
        /\ StopSession
     \/ /\ early.pending.op = "tick"
        /\ \E t \in timers : t.id = early.pending.id /\ Tick(t)
     \/ /\ early.pending.op = "update"
        /\ UpdateFocusStateCall(early.pending.ev)

----------------------------------------------------------------------------
(* FaceDetector and the frames of CameraFeed's detection loop *)

\* this.detectionInterval, milliseconds
detectionInterval == 100

\* what MediaPipe reports per frame: no face, or one face whose first
\* category has no score (Null) or a score in thousandths
FaceScores == {Null, FocusThreshold - 1, FocusThreshold}
Detections == {<<>>} \cup {<<[score |-> sc]>> : sc \in FaceScores}

\* detection.categories[0]?.score || 0
Confidence(score) == IF Falsy(score) THEN 0 ELSE score

RECURSIVE Faces(_)
Faces(detections) ==
  IF detections = <<>> THEN <<>>
  ELSE <<[confidence |-> Confidence(Head(detections).score)]>>
         \o Faces(Tail(detections))

EmptyResult == [faces |-> <<>>, faceDetected |-> FALSE, timestamp |-> now]

\* Detect with the throttle applied before the initialization test
Detect_throttleFirst(detections, fails) ==
  IF now - lastDetectionTime < detectionInterval
    THEN [results |-> NullResult, lastDetectionTime |-> lastDetectionTime]
    ELSE [results |->
            IF ~isInitialized \/ ~detector \/ fails THEN EmptyResult
            ELSE [faces |-> Faces(detections),
                  faceDetected |-> Len(Faces(detections)) > 0,
                  timestamp |-> now],
          lastDetectionTime |-> now]

\* FaceDetector.detect at time now: what it returns and the lastDetectionTime
\* it leaves; detections is what detectForVideo reports, fails whether it
\* throws
Detect(detections, fails) ==
  IF ~isInitialized \/ ~detector
    THEN [results |-> EmptyResult, lastDetectionTime |-> lastDetectionTime]
    ELSE IF now - lastDetectionTime < detectionInterval
      THEN [results |-> NullResult, lastDetectionTime |-> lastDetectionTime]
      ELSE [results |->
              IF fails THEN EmptyResult
              ELSE [faces |-> Faces(detections),
                    faceDetected |-> Len(Faces(detections)) > 0,
                    timestamp |-> now],
            lastDetectionTime |-> now]

\* FaceDetector.initialize completing: the model is loaded
Initialize ==
  /\ ~isInitialized
  /\ isInitialized' = TRUE
  /\ detector' = TRUE
  /\ emitted' = <<>>
  /\ returned' = NoSummary
  /\ lastOp' = "initialize"
  /\ UNCHANGED <<hookState, hookRefs, host, modal, probe, early, lastDetectionTime, results,
                 resultTime, lastEv, lastCfg, calls, ticksSinceStart,
                 completeNotifs, periodStart, periodNotifs>>

\* FaceDetector.initialize called on an initialized detector: it returns
\* at once
InitializeAgain ==
  /\ isInitialized
  /\ calls' = calls + 1
  /\ emitted' = <<>>
  /\ returned' = NoSummary
  /\ lastOp' = "initializeAgain"
  /\ UNCHANGED <<hookState, hookRefs, host, modal, probe, early, detection,
                 lastEv, lastCfg, ticksSinceStart, completeNotifs,
                 periodStart, periodNotifs>>

\* FaceDetector.dispose
Dispose ==
  /\ detector
  /\ detector' = FALSE
  /\ isInitialized' = FALSE
  /\ emitted' = <<>>
  /\ returned' = NoSummary
  /\ lastOp' = "dispose"
  /\ UNCHANGED <<hookState, hookRefs, host, modal, probe, early, lastDetectionTime, results,
                 resultTime, lastEv, lastCfg, calls, ticksSinceStart,
                 completeNotifs, periodStart, periodNotifs>>

\* detect called by a client of the class
DetectCall(detections, fails) ==
  LET r == Detect(detections, fails) IN
  /\ results' = r.results
  /\ lastDetectionTime' = r.lastDetectionTime
  /\ resultTime' = IF r.results = NullResult THEN resultTime ELSE now
  /\ calls' = calls + 1
  /\ emitted' = <<>>
  /\ returned' = NoSummary
  /\ lastOp' = "detect"
  /\ UNCHANGED <<hookState, hookRefs, host, modal, probe, early, isInitialized, detector,
                 lastEv, lastCfg, ticksSinceStart, completeNotifs,
                 periodStart, periodNotifs>>

\* detectionData built by detectAndDraw from a result
DetectionData(r) ==
  [faceDetected |-> r.faceDetected,
   confidence |-> IF Len(r.faces) > 0 /\ ~Falsy(r.faces[1].confidence)
                    THEN r.faces[1].confidence ELSE 0]

\* a frame for which detect returned null: nothing is reported
FrameSkipped ==
  /\ calls' = calls + 1
  /\ emitted' = <<>>
  /\ returned' = NoSummary
  /\ lastOp' = "frameSkipped"
  /\ UNCHANGED <<hookState, hookRefs, host, modal, probe, early, lastEv, lastCfg,
                 ticksSinceStart, completeNotifs, periodStart, periodNotifs>>

\* FrameOutcome with a null result reported as "no face"
FrameOutcome_nullIsNoFace(r) ==
  IF r = NullResult
    THEN OnDetectionUpdate([faceDetected |-> FALSE, confidence |-> 0])
    ELSE OnDetectionUpdate(DetectionData(r))

\* detectAndDraw after the call of detect: if (results) { ... }
FrameOutcome(r) ==
  IF r = NullResult
    THEN FrameSkipped
    ELSE OnDetectionUpdate(DetectionData(r))

\* one frame of the detection loop
DetectAndDraw(detections, fails) ==
  LET r == Detect(detections, fails) IN
  /\ cameraOn
  /\ results' = r.results
  /\ lastDetectionTime' = r.lastDetectionTime
  /\ resultTime' = IF r.results = NullResult THEN resultTime ELSE now
  /\ UNCHANGED <<isInitialized, detector>>
  /\ FrameOutcome(r.results)

----------------------------------------------------------------------------
(* App and SessionTypeModal: choosing the session *)

\* SESSION_TYPES with the durations of deepWork and shortSprint exchanged
SESSION_TYPES_exchanged ==
  [pomodoro |-> [id |-> "pomodoro", duration |-> 25 * 60],
   deepWork |-> [id |-> "deepWork", duration |-> 15 * 60],
   shortSprint |-> [id |-> "shortSprint", duration |-> 90 * 60],
   custom |-> [id |-> "custom", duration |-> Null]]

\* SESSION_TYPES, the fields the modal reads
SESSION_TYPES ==
  [pomodoro |-> [id |-> "pomodoro", duration |-> 25 * 60],
   deepWork |-> [id |-> "deepWork", duration |-> 90 * 60],
   shortSprint |-> [id |-> "shortSprint", duration |-> 15 * 60],
   custom |-> [id |-> "custom", duration |-> Null]]

Presets == {"pomodoro", "deepWork", "shortSprint"}

\* the bounds handleCustomSubmit tests the minutes against
MinMinutes == 1
MaxMinutes == 180

\* what can be typed into the duration field: a text is a sequence of
\* characters
InputChars == {"0", "1", "8", ".", "-"}

IsDigit(c) == c \in {"0", "1", "2", "3", "4", "5", "6", "7", "8", "9"}
DigitValue(c) ==
  CASE c = "0" -> 0 [] c = "1" -> 1 [] c = "2" -> 2 [] c = "3" -> 3
    [] c = "4" -> 4 [] c = "5" -> 5 [] c = "6" -> 6 [] c = "7" -> 7
    [] c = "8" -> 8 [] c = "9" -> 9

RECURSIVE DigitPrefixLen(_)
DigitPrefixLen(text) ==
  IF text = <<>> \/ ~IsDigit(Head(text)) THEN 0
  ELSE 1 + DigitPrefixLen(Tail(text))

RECURSIVE Decimal(_)
Decimal(digits) ==
  IF digits = <<>> THEN 0
  ELSE 10 * Decimal(SubSeq(digits, 1, Len(digits) - 1))
         + DigitValue(digits[Len(digits)])

RECURSIVE TrimStart(_)
TrimStart(text) ==
  IF text # <<>> /\ Head(text) = " " THEN TrimStart(Tail(text)) ELSE text

NaN == [nan |-> TRUE, value |-> 0]

\* parseInt(text, 10): leading blanks are skipped, then an optional sign and
\* the longest run of digits are read and whatever follows is ignored; NaN
\* when there is no digit to read
ParseInt(text) ==
  LET t == TrimStart(text)
      signed == t # <<>> /\ Head(t) \in {"-", "+"}
      body == IF signed THEN Tail(t) ELSE t
      n == DigitPrefixLen(body)
      magnitude == Decimal(SubSeq(body, 1, n))
  IN IF n = 0 THEN NaN
     ELSE [nan |-> FALSE,
           value |-> IF signed /\ Head(t) = "-" THEN 0 - magnitude
                     ELSE magnitude]

\* App.handleStartSession while no session is active: the modal is mounted
OpenModal ==
  /\ ~sessionActive
  /\ ~showSessionModal
  /\ showSessionModal' = TRUE
  /\ customDuration' = <<>>
  /\ error' = ""
  /\ emitted' = <<>>
  /\ returned' = NoSummary
  /\ lastOp' = "openModal"
  /\ calls' = calls + 1
  /\ UNCHANGED <<hookState, hookRefs, host, detection, probe, early, lastEv, lastCfg,
                 ticksSinceStart,
                 completeNotifs, periodStart, periodNotifs>>

\* App.handleStartSession while a session is active
EndSession ==
  /\ sessionActive
  /\ StopSession

\* the modal's onCancel: the modal is unmounted
CancelModal ==
  /\ showSessionModal
  /\ showSessionModal' = FALSE
  /\ customDuration' = <<>>
  /\ error' = ""
  /\ emitted' = <<>>
  /\ returned' = NoSummary
  /\ lastOp' = "cancelModal"
  /\ calls' = calls + 1
  /\ UNCHANGED <<hookState, hookRefs, host, detection, probe, early, lastEv, lastCfg,
                 ticksSinceStart,
                 completeNotifs, periodStart, periodNotifs>>

\* handleCustomInputChange, run at every keystroke with the field's text
TypeCustomDuration(text) ==
  /\ showSessionModal
  /\ customDuration' = text
  /\ error' = ""
  /\ emitted' = <<>>
  /\ returned' = NoSummary
  /\ lastOp' = "typeCustom"
  /\ UNCHANGED <<hookState, hookRefs, host, detection, probe, early, showSessionModal,
                 lastEv, lastCfg,
                 calls, ticksSinceStart, completeNotifs, periodStart,
                 periodNotifs>>

\* App.handleSessionTypeSelected, the modal's onSelect: the modal is
\* unmounted and the session is started
HandleSessionTypeSelected(cfg) ==
  /\ showSessionModal' = FALSE
  /\ customDuration' = <<>>
  /\ error' = ""
  /\ StartSessionCall(cfg, NoSummary)

HandlePresetSelect(sessionType_) ==
  /\ showSessionModal
  /\ HandleSessionTypeSelected(
       [type |-> SESSION_TYPES[sessionType_].id,
        duration |-> SESSION_TYPES[sessionType_].duration])

\* a validation failure of handleCustomSubmit: setError(message); return
RejectCustom(message) ==
  /\ error' = message
  /\ emitted' = <<>>
  /\ returned' = NoSummary
  /\ lastOp' = "customRejected"
  /\ calls' = calls + 1
  /\ UNCHANGED <<hookState, hookRefs, host, detection, probe, early, showSessionModal,
                 customDuration,
                 lastEv, lastCfg, ticksSinceStart, completeNotifs, periodStart,
                 periodNotifs>>

HandleCustomSubmit ==
  LET minutes == ParseInt(customDuration) IN
  /\ showSessionModal
  /\ IF minutes.nan \/ minutes.value < MinMinutes
       THEN RejectCustom("Please enter a valid duration (minimum 1 minute)")
       ELSE IF minutes.value > MaxMinutes
         THEN RejectCustom("Maximum duration is 180 minutes (3 hours)")
         ELSE HandleSessionTypeSelected(
                [type |-> "custom", duration |-> minutes.value * 60])

----------------------------------------------------------------------------
Next ==
  \/ \E cfg \in Configs : calls < MaxCalls /\ StartSession(cfg, NoSummary)
  \/ calls < MaxCalls /\ StopSession
  \/ \E t \in timers : Tick(t)
  \/ \E d \in AdvanceSteps : Advance(d, Horizon)
  \/ calls < MaxCalls /\ StartCamera
  \/ calls < MaxCalls /\ StopCamera
  \/ \E ev \in Events : calls < MaxCalls /\ Detection(ev)

Spec == Init /\ [][Next]_vars

(* One long session watched by the camera: the clock moves a tick period at *)
(* a time, far enough for the 10 second debounce of the away notification.  *)
AwayEvents == {ev \in Events : ev.confidence = FocusThreshold}

NextAway ==
  \/ /\ lastOp = "init"
     /\ StartSession([type |-> "pomodoro", duration |-> PomodoroDuration],
                     NoSummary)
  \/ \E t \in timers : Tick(t)
  \/ Advance(TickPeriod, AwayHorizon)
  \/ calls < MaxAwayCalls /\ StartCamera
  \/ calls < MaxAwayCalls /\ StopCamera
  \/ \E ev \in AwayEvents : calls < MaxAwayCalls /\ Detection(ev)

SpecAway == Init /\ [][NextAway]_vars

(* The hook called with a duration of 0 seconds, which the modal never      *)
(* produces but startSession accepts.                                       *)
UntimedConfig == [type |-> "custom", duration |-> 0]

NextUntimed ==
  \/ calls < MaxCalls /\ StartSession(UntimedConfig, NoSummary)
  \/ calls < MaxCalls /\ StopSession
  \/ \E t \in timers : Tick(t)
  \/ \E d \in AdvanceSteps : Advance(d, Horizon)
  \/ calls < MaxCalls /\ StartCamera
  \/ calls < MaxCalls /\ StopCamera
  \/ \E ev \in Events : calls < MaxCalls /\ Detection(ev)

SpecUntimed == Init /\ [][NextUntimed]_vars

(* The runs of Spec with the summary of stopSession observed on the         *)
(* countdown's path too: every interval callback keeps the Summary of the   *)
(* render that called startSession.                                         *)
NextSummary ==
  \/ \E cfg \in Configs : calls < MaxCalls /\ StartSession(cfg, Summary)
  \/ calls < MaxCalls /\ StopSession
  \/ \E t \in timers : Tick(t)
  \/ \E d \in AdvanceSteps : Advance(d, Horizon)
  \/ calls < MaxCalls /\ StartCamera
  \/ calls < MaxCalls /\ StopCamera
  \/ \E ev \in Events : calls < MaxCalls /\ Detection(ev)

SpecSummary == Init /\ [][NextSummary]_vars

(* Sessions run with the camera off: no detection result ever reaches       *)
(* onDetectionUpdate.                                                       *)
NextIdle ==
  \/ \E cfg \in Configs : calls < MaxCalls /\ StartSession(cfg, NoSummary)
  \/ calls < MaxCalls /\ StopSession
  \/ \E t \in timers : Tick(t)
  \/ \E d \in AdvanceSteps : Advance(d, Horizon)

SpecIdle == Init /\ [][NextIdle]_vars

(* The hook driven by a caller that hands any object to updateFocusState.   *)
NextAnyEvent ==
  \/ \E cfg \in Configs : calls < MaxEventCalls /\ StartSession(cfg, NoSummary)
  \/ calls < MaxEventCalls /\ StopSession
  \/ \E t \in timers : Tick(t)
  \/ \E d \in AdvanceSteps : Advance(d, Horizon)
  \/ \E ev \in AnyEvents : calls < MaxEventCalls /\ UpdateFocusStateCall(ev)

SpecAnyEvent == Init /\ [][NextAnyEvent]_vars

(* A FaceDetector driven by any client: initialize, detect, dispose.        *)
NextDetector ==
  \/ calls < MaxDetectorCalls /\ Initialize
  \/ calls < MaxDetectorCalls /\ InitializeAgain
  \/ calls < MaxDetectorCalls /\ Dispose
  \/ \E detections \in Detections, fails \in BOOLEAN :
       calls < MaxDetectorCalls /\ DetectCall(detections, fails)
  \/ Advance(FrameStep, DetectorHorizon)

SpecDetector == Init /\ [][NextDetector]_vars

(* The camera loop of the App at frame rate during the first second of a    *)
(* session: no interval of the session comes due within DetectorHorizon.    *)
NextFrames ==
  \/ \E cfg \in Configs : /\ calls < MaxFrameCalls /\ ~sessionActive
                           /\ StartSession(cfg, NoSummary)
  \/ calls < MaxFrameCalls /\ StartCamera
  \/ Initialize
  \/ \E detections \in Detections, fails \in BOOLEAN :
       calls < MaxFrameCalls /\ DetectAndDraw(detections, fails)
  \/ Advance(FrameStep, DetectorHorizon)

SpecFrames == Init /\ [][NextFrames]_vars

(* One session in which, at some clock reading, a pending tick and a        *)
(* pending detection update are taken in both orders.                       *)
NextCommute ==
  \/ \E cfg \in Configs : lastOp = "init" /\ StartSession(cfg, NoSummary)
  \/ \E ev \in AwayEvents :
       ~probe.on /\ calls < MaxProbeCalls /\ UpdateFocusStateCall(ev)
  \/ \E t \in timers : ~probe.on /\ Tick(t)
  \/ \E d \in AdvanceSteps : ~probe.on /\ Advance(d, AwayHorizon)
  \/ \E t \in timers, ev \in Events : ProbeBegin(t, ev)
  \/ \E t \in timers : ProbeTick(t)
  \/ ProbeUpdate
  \/ ProbeRestore

SpecCommute == Init /\ [][NextCommute]_vars

(* The early hook and the countdown hook given the same starts, ticks,      *)
(* updates and stops, in runs in which no countdown reaches zero.           *)
NextBoth ==
  \/ \E cfg \in Configs :
       calls < MaxBothCalls /\ EarlyCall([op |-> "start", cfg |-> cfg])
  \/ calls < MaxBothCalls /\ EarlyCall([op |-> "stop"])
  \/ \E ev \in Events :
       calls < MaxBothCalls /\ EarlyCall([op |-> "update", ev |-> ev])
  \/ \E t \in early.timers : EarlyTickDue(t.id)
  \/ SameCall
  \/ \E d \in AdvanceSteps : ~EarlyAhead /\ Advance(d, Horizon)

SpecBoth == Init /\ [][NextBoth]_vars

(* Deep work sessions watched for more than an hour: the calls are made in  *)
(* the first seconds, then time passes.                                     *)
DeepWorkConfig == [type |-> SESSION_TYPES.deepWork.id,
                   duration |-> SESSION_TYPES.deepWork.duration]

NextWater ==
  \/ /\ calls < MaxWaterCalls
     /\ now <= Horizon
     /\ StartSession(DeepWorkConfig, NoSummary)
  \/ /\ calls < MaxWaterCalls
     /\ now <= Horizon
     /\ StopSession
  \/ \E t \in timers : Tick(t)
  \/ \E t \in timers : WaterTick(t)
  \/ Advance(TickPeriod, WaterHorizon)

SpecWater == Init /\ [][NextWater]_vars

(* Sessions chosen through the modal of the App: the button, the presets,   *)
(* the custom duration field.                                               *)
NextModal ==
  \/ calls < MaxCalls /\ OpenModal
  \/ calls < MaxCalls /\ CancelModal
  \/ \E c \in InputChars :
       /\ Len(customDuration) < MaxInputLen
       /\ TypeCustomDuration(Append(customDuration, c))
  \/ calls < MaxCalls /\ HandleCustomSubmit
  \/ \E p \in Presets : calls < MaxCalls /\ HandlePresetSelect(p)
  \/ calls < MaxCalls /\ EndSession
  \/ \E t \in timers : Tick(t)
  \/ \E d \in AdvanceSteps : Advance(d, Horizon)

SpecModal == Init /\ [][NextModal]_vars

(* One pomodoro session with the camera started right after it; every       *)
(* detection result shows a face with confidence at the threshold or above, *)
(* and a result is delivered exactly one second after the previous one (the *)
(* first one a second after the start).                                     *)
FocusedEvents ==
  {ev \in Events : ev.faceDetected /\ ev.confidence >= FocusThreshold}

NextFocused ==
  \/ /\ lastOp = "init"
     /\ StartSession([type |-> "pomodoro", duration |-> PomodoroDuration],
                     NoSummary)
  \/ lastOp = "start" /\ StartCamera
  \/ \E t \in timers : Tick(t)
  \/ Advance(TickPeriod, FocusHorizon)
  \/ \E ev \in FocusedEvents :
       now = lastUpdateTimeRef + TickPeriod /\ Detection(ev)

SpecFocused == Init /\ [][NextFocused]_vars

----------------------------------------------------------------------------
(* Claims *)

AccumulatorSum == focusedTime + distractedTime + awayTime

C2_UpdateCreditsPriorState ==
  [][(lastOp' = "update" /\ sessionActive) =>
       LET delta == now - lastUpdateTimeRef IN
       /\ currentStateRef = "focused" =>
            /\ focusedTime' = focusedTime + delta
            /\ distractedTime' = distractedTime
            /\ awayTime' = awayTime
       /\ currentStateRef = "distracted" =>
            /\ focusedTime' = focusedTime
            /\ distractedTime' = distractedTime + delta
            /\ awayTime' = awayTime
       /\ currentStateRef = "away" =>
            /\ focusedTime' = focusedTime
            /\ distractedTime' = distractedTime
            /\ awayTime' = awayTime + delta
       /\ sessionDuration' = sessionDuration
       /\ remainingTime' = remainingTime
       /\ currentStateRef' =
            (IF ~lastEv'.faceDetected THEN "away"
             ELSE IF lastEv'.confidence >= 600 THEN "focused" ELSE "distracted")
       /\ lastUpdateTimeRef' = now']_vars

C2_Witness ==
  /\ sessionActive
  /\ lastOp = "update"
  /\ currentStateRef = "away"
  /\ focusedTime > 0
  /\ distractedTime = 0
  /\ awayTime > 0

\* C3: a detection event is classified Away when faceDetected is false,
\* otherwise Focused when confidence >= 0.6 (0.6 included), otherwise
\* Distracted, whatever the previous classification and the timers.
C3_ClassificationTable ==
  lastOp = "update" =>
    /\ ~lastEv.faceDetected => currentStateRef = "away"
    /\ (lastEv.faceDetected /\ lastEv.confidence >= 600) =>
         currentStateRef = "focused"
    /\ (lastEv.faceDetected /\ lastEv.confidence < 600) =>
         currentStateRef = "distracted"

C3_Witness ==
  /\ lastOp = "update"
  /\ lastEv = [faceDetected |-> TRUE, confidence |-> 600]
  /\ currentStateRef = "focused"
  /\ distractedTime > 0

\* C4: in an uninterrupted away period of an active session at most one
\* "come back" notification is emitted, none before 10 seconds have passed
\* since the period was opened, and once an Away update has been processed 10
\* seconds or more into the period exactly one has been emitted.
C4_OneComeBackPerAwayPeriod ==
  (sessionActive /\ periodStart # Null) =>
    /\ periodNotifs <= 1
    /\ periodNotifs >= 1 => lastUpdateTimeRef - periodStart >= 10000
    /\ lastUpdateTimeRef - periodStart >= 10000 => periodNotifs = 1

\* C5: a non-Away update closes the away period and clears the fired flag, so
\* an away period that follows a return of the user and lasts 10 seconds or
\* more is notified again, once.
C5_AwayPeriodAfterReturnNotifies ==
  /\ (lastOp = "update" /\ currentStateRef # "away") =>
       (awayStartTime = Null /\ ~awayNotificationShown)
  /\ (sessionActive /\ periodStart # Null /\ focusedTime > 0
        /\ lastUpdateTimeRef - periodStart >= 10000) => periodNotifs = 1

\* C6: a session started with a duration D >= 1 counts D, D-1, ..., 1 on its
\* ticks and is stopped by the countdown on exactly its D-th tick, not earlier.
C6_StopsOnDthTick ==
  /\ (sessionActive /\ targetDuration >= 1) =>
       (remainingTime = targetDuration - ticksSinceStart /\ remainingTime >= 1)
  /\ (lastOp = "tickComplete" /\ targetDuration >= 1 /\ completeNotifs = 1) =>
       (ticksSinceStart = targetDuration /\ remainingTime = 0 /\ ~sessionActive)

C6_Witness ==
  /\ lastOp = "tickComplete"
  /\ targetDuration >= 2
  /\ ticksSinceStart = targetDuration
  /\ completeNotifs = 1
  /\ ~sessionActive

\* C7: the "session complete" notification (and the stop that goes with it)
\* happens at most once per session, whatever tick comes after the countdown
\* has reached zero.
C7_CompleteOnlyOnce ==
  completeNotifs <= 1

\* C8: after any start, also one made while a session is active, exactly one
\* 1 Hz tick interval and one hydration interval are armed, as after stop()
\* followed by start().
C8_StartDoesNotStack ==
  lastOp = "start" =>
    (Cardinality(TickTimers) = 1 /\ Cardinality(WaterTimers) = 1)

\* C9: after every start(config), whatever happened before, the session is
\* active, elapsedSeconds and the three accumulators are 0, the classification
\* is Away, remainingSeconds and targetDuration are config.duration, the type
\* is config.type, no away period is open and the fired flag is false.
C9_StartResetsEverything ==
  lastOp = "start" =>
    /\ sessionActive
    /\ sessionDuration = 0
    /\ focusedTime = 0 /\ distractedTime = 0 /\ awayTime = 0
    /\ currentStateRef = "away"
    /\ remainingTime = lastCfg.duration
    /\ targetDuration = lastCfg.duration
    /\ sessionType = lastCfg.type
    /\ awayStartTime = Null
    /\ ~awayNotificationShown

C9_Witness ==
  /\ lastOp = "start"
  /\ nextTimerId = 5
  /\ lastEv.faceDetected
  /\ cb.sessionActive
  /\ sessionDuration = 0
  /\ now > ClockOrigin

\* C10: once stop() has returned and until the next start no interval is
\* armed, so elapsedSeconds, remainingSeconds, the accumulators and the away
\* guard do not change and nothing is notified.
C10_NothingHappensAfterStop ==
  [][(lastOp # "init" /\ ~sessionActive /\ ~sessionActive') =>
       /\ timers = {}
       /\ UNCHANGED <<sessionDuration, remainingTime, focusedTime,
                      distractedTime, awayTime, awayStartTime,
                      awayNotificationShown>>
       /\ emitted' = <<>>]_vars

\* C11: an updateFocusState call or a tick that runs while the session is
\* inactive (before the first start or after a stop) is a silent no-op: the
\* accumulators, the classification, lastUpdateTime, elapsedSeconds,
\* remainingSeconds and the away guard keep their values and nothing is
\* notified.
C11_InactiveCallsAreNoOps ==
  [][(~sessionActive
        /\ lastOp' \in {"tick", "tickComplete", "update", "frameIgnored"}) =>
       /\ UNCHANGED <<focusedTime, distractedTime, awayTime, currentStateRef,
                      lastUpdateTimeRef, sessionDuration, remainingTime,
                      awayStartTime, awayNotificationShown>>
       /\ emitted' = <<>>]_vars

\* C12: stop() on a session that is already inactive changes no field of the
\* tracker, clears no interval and notifies nothing, so stop(); stop() leaves
\* the state of a single stop().
C12_StopIsIdempotent ==
  [][(~sessionActive /\ lastOp' = "stop") =>
       /\ UNCHANGED <<hookState, hookRefs, timers>>
       /\ emitted' = <<>>]_vars

\* C13: in every reachable state the focus score lies between 0 and 100
\* percent, and it is 0 whenever elapsedSeconds is 0.
C13_FocusScoreWithinPercent ==
  /\ focusScore >= 0
  /\ focusScore <= 100000
  /\ sessionDuration = 0 => focusScore = 0

\* C14: in every reachable state remainingSeconds is not negative and is the
\* target duration minus elapsedSeconds, floored at 0.
C14_RemainingIsTargetMinusElapsed ==
  /\ remainingTime >= 0
  /\ remainingTime = IF targetDuration - sessionDuration > 0
                       THEN targetDuration - sessionDuration
                       ELSE 0

C14_Witness ==
  /\ lastOp = "tick"
  /\ sessionActive
  /\ sessionDuration = 2
  /\ remainingTime = targetDuration - 2
  /\ remainingTime > 0

\* C15: a tick of an active session lowers remainingSeconds by exactly 1 (it
\* stays 0 when it is 0) and raises elapsedSeconds by exactly 1; unless it is
\* the tick that completes the session it changes no accumulator, nor the
\* classification, lastUpdateTime or the away guard.
C15_TickCountsOneSecond ==
  [][(sessionActive /\ lastOp' \in {"tick", "tickComplete"}) =>
       /\ remainingTime' = IF remainingTime = 0 THEN 0 ELSE remainingTime - 1
       /\ sessionDuration' = sessionDuration + 1
       /\ sessionDuration' >= sessionDuration
       /\ UNCHANGED <<focusedTime, distractedTime, awayTime, currentStateRef,
                      lastUpdateTimeRef>>
       /\ lastOp' = "tick" =>
            UNCHANGED <<awayStartTime, awayNotificationShown>>]_vars

C15_Witness ==
  /\ lastOp = "tick"
  /\ sessionActive
  /\ sessionDuration >= 1
  /\ remainingTime = targetDuration - sessionDuration
  /\ awayTime > 0
  /\ awayStartTime # Null
  /\ lastUpdateTimeRef = now

\* C16: a session started with a duration of 0 seconds is untimed: a tick of
\* it only advances elapsedSeconds, emits no "session complete" and leaves
\* the session active with its intervals armed, so only stop() ends it.
C16_UntimedSessionOnlyCountsUp ==
  [][(sessionActive /\ targetDuration = 0
        /\ lastOp' \in {"tick", "tickComplete"}) =>
       /\ sessionDuration' = sessionDuration + 1
       /\ sessionActive'
       /\ emitted' = <<>>
       /\ UNCHANGED <<remainingTime, intervalRef, waterIntervalRef,
                      completeNotifs>>]_vars

\* C17: on both termination paths, the explicit stop() and the stop made by
\* the countdown reaching zero, the summary stop returns holds the tracker's
\* elapsedSeconds and its three accumulators as they are when the stop is
\* performed, and its focusScore is 100 * focusedTime / duration when the
\* duration is positive and 0 otherwise.
C17_StopReturnsCurrentSummary ==
  [][(lastOp' \in {"stop", "tickComplete"}) =>
       /\ returned'.duration \in {sessionDuration, sessionDuration'}
       /\ returned'.focusedTime = focusedTime
       /\ returned'.distractedTime = distractedTime
       /\ returned'.awayTime = awayTime
       /\ returned'.focusScore =
            IF returned'.duration > 0
              THEN (100 * returned'.focusedTime) \div returned'.duration
              ELSE 0]_vars

\* C18: the stop made by the countdown reaching zero and an explicit stop()
\* leave the same terminal condition: the session is inactive, no tick
\* interval and no hydration interval is armed, no away period is open and
\* the notification-fired flag is false.
C18_SameTerminalCondition ==
  lastOp \in {"stop", "tickComplete"} =>
    /\ ~sessionActive
    /\ TickTimers = {}
    /\ WaterTimers = {}
    /\ intervalRef = Null
    /\ waterIntervalRef = Null
    /\ awayStartTime = Null
    /\ ~awayNotificationShown

C20_AllFocusedIsAllCredited ==
  (sessionActive /\ lastOp = "update") =>
    /\ focusedTime = lastUpdateTimeRef - sessionStartTime
    /\ distractedTime = 0
    /\ awayTime = 0
    /\ sessionDuration * 1000 = lastUpdateTimeRef - sessionStartTime =>
         focusScore = 100000

\* C20 (amended): in that scenario the first second is credited to awayTime,
\* the classification a session starts with, and every later second to
\* focusedTime: after n seconds focusedTime = n - 1, awayTime = 1,
\* distractedTime = 0, and the focus score is 100 * (n - 1) / n once the n
\* ticks have run.
C20_FirstSecondIsAway ==
  (sessionActive /\ lastOp = "update") =>
    /\ focusedTime = lastUpdateTimeRef - sessionStartTime - 1000
    /\ distractedTime = 0
    /\ awayTime = 1000
    /\ sessionDuration * 1000 = lastUpdateTimeRef - sessionStartTime =>
         focusScore = (100000 * (sessionDuration - 1)) \div sessionDuration

C20_Witness ==
  /\ sessionActive
  /\ lastOp = "update"
  /\ lastUpdateTimeRef = sessionStartTime + 10 * 1000
  /\ sessionDuration = 10
  /\ focusedTime = 9000
  /\ awayTime = 1000
  /\ focusScore = 90000

\* What a text typed as the custom duration denotes: it is a whole number
\* when it is an optional minus sign, one or more digits and at most a
\* decimal point followed by zeros only.
Unsigned(text) == IF text # <<>> /\ Head(text) = "-" THEN Tail(text) ELSE text

DenotesInteger(text) ==
  LET b == Unsigned(text)
      n == DigitPrefixLen(b)
  IN /\ n >= 1
     /\ \/ Len(b) = n
        \/ /\ b[n + 1] = "."
           /\ \A i \in (n + 2)..Len(b) : b[i] = "0"

IntegerValue(text) ==
  LET b == Unsigned(text)
      m == Decimal(SubSeq(b, 1, DigitPrefixLen(b)))
  IN IF b = text THEN m ELSE 0 - m

\* C21: a custom duration is accepted exactly when it is a whole number of
\* minutes m with 1 <= m <= 180, and the session is then started with
\* {type: custom, duration: 60 * m}; any other text is rejected with a
\* validation error, nothing is selected and no session state changes.
C21_CustomDurationValidated ==
  [][(lastOp' = "customRejected"
        \/ (lastOp' = "start" /\ lastCfg'.type = "custom")) =>
       IF /\ DenotesInteger(customDuration)
          /\ IntegerValue(customDuration) >= 1
          /\ IntegerValue(customDuration) <= 180
         THEN /\ lastOp' = "start"
              /\ sessionActive'
              /\ lastCfg' = [type |-> "custom",
                             duration |-> 60 * IntegerValue(customDuration)]
              /\ targetDuration' = 60 * IntegerValue(customDuration)
         ELSE /\ lastOp' = "customRejected"
              /\ error' # ""
              /\ showSessionModal'
              /\ UNCHANGED <<hookState, hookRefs, timers>>]_vars

\* C22: a session started from a preset has the configuration duration 1500 s
\* for Pomodoro, 5400 s for Deep Work and 900 s for Short Sprint, and its
\* remainingSeconds and targetDuration are that same value.
C22_PresetDurations ==
  lastOp = "start" =>
    /\ lastCfg.type = "pomodoro" =>
         (lastCfg.duration = 1500 /\ remainingTime = 1500
            /\ targetDuration = 1500)
    /\ lastCfg.type = "deepWork" =>
         (lastCfg.duration = 5400 /\ remainingTime = 5400
            /\ targetDuration = 5400)
    /\ lastCfg.type = "shortSprint" =>
         (lastCfg.duration = 900 /\ remainingTime = 900
            /\ targetDuration = 900)

C22_Witness ==
  /\ lastOp = "start"
  /\ ~showSessionModal
  /\ sessionType = "deepWork"
  /\ lastCfg.type = "deepWork"
  /\ remainingTime = 5400
  /\ nextTimerId = 5

\* C23: while a session is active exactly one hydration interval is armed
\* and it notifies once per 30 minutes counted from that session's start;
\* nothing is notified at start, and no hydration notification is emitted
\* while no session is active.
C23_HydrationEveryHalfHour ==
  /\ sessionActive =>
       /\ Cardinality(WaterTimers) = 1
       /\ \A t \in WaterTimers :
            /\ (t.due - sessionStartTime) % WaterPeriod = 0
            /\ t.due > sessionStartTime
            /\ t.due <= now + WaterPeriod
  /\ lastOp = "water" =>
       /\ sessionActive
       /\ now > sessionStartTime
       /\ (now - sessionStartTime) % WaterPeriod = 0
  /\ lastOp = "start" => emitted = <<>>

\* C24: updateFocusState called on an active session with an object that has
\* no faceDetected field runs like any update: the object is classified Away,
\* the time since the last update is credited to the classification held
\* before, and lastUpdateTime becomes now.
C24_MissingFaceDetectedIsAway ==
  [][(sessionActive /\ lastOp' \in {"update", "frameIgnored"}
        /\ "faceDetected" \notin DOMAIN lastEv') =>
       /\ lastOp' = "update"
       /\ currentStateRef' = "away"
       /\ lastUpdateTimeRef' = now
       /\ focusedTime' = focusedTime
            + (IF currentStateRef = "focused" THEN now - lastUpdateTimeRef
               ELSE 0)
       /\ distractedTime' = distractedTime
            + (IF currentStateRef = "distracted" THEN now - lastUpdateTimeRef
               ELSE 0)
       /\ awayTime' = awayTime
            + (IF currentStateRef = "away" THEN now - lastUpdateTimeRef
               ELSE 0)]_vars

C24_Witness ==
  /\ sessionActive
  /\ lastOp = "update"
  /\ "faceDetected" \notin DOMAIN lastEv
  /\ currentStateRef = "away"
  /\ focusedTime > 0
  /\ awayStartTime = now

\* C25: FaceDetector.detect returns a result other than null at most once per
\* detectionInterval, whatever the state of the detector: a call made less
\* than detectionInterval after the previous result returns null.
C25_OneResultPerInterval ==
  [][(lastOp' = "detect" /\ resultTime # Null
        /\ now - resultTime < detectionInterval) =>
       results' = NullResult]_vars

\* C26: the first updateFocusState processed after startSession credits the
\* whole time since the start to awayTime, whatever the event shows:
\* focusedTime and distractedTime are still 0 after it.  startSession leaves
\* the session unwatched (classification Away, nothing credited,
\* lastUpdateTime at the start), the session stays so until an update is
\* processed, and the update processed then credits Away alone.
C26_Unwatched ==
  /\ sessionActive
  /\ lastUpdateTimeRef = sessionStartTime
  /\ currentStateRef = "away"
  /\ focusedTime + distractedTime + awayTime = 0

C26_FirstUpdateCreditsAway ==
  [][/\ lastOp' = "start" => C26_Unwatched'
     /\ (C26_Unwatched /\ lastOp' \notin {"start", "update"} /\ sessionActive')
          => C26_Unwatched'
     /\ (C26_Unwatched /\ lastOp' = "update") =>
          /\ awayTime' = now - sessionStartTime
          /\ focusedTime' = 0
          /\ distractedTime' = 0]_vars

C26_Witness ==
  /\ sessionActive
  /\ lastOp = "update"
  /\ lastEv = [faceDetected |-> TRUE, confidence |-> FocusThreshold]
  /\ currentStateRef = "focused"
  /\ lastUpdateTimeRef = sessionStartTime + TickPeriod
  /\ awayTime = TickPeriod
  /\ focusedTime = 0
  /\ distractedTime = 0

\* C27: a frame for which the detector returns null performs no transition
\* and no accumulation: updateFocusState is not invoked, and the
\* classification, lastUpdateTime, the accumulators and the away guard are
\* left as they were.
C27_NullFrameChangesNothing ==
  [][(lastOp' \in {"update", "frameIgnored", "frameSkipped"}
        /\ results' = NullResult) =>
       /\ lastOp' = "frameSkipped"
       /\ emitted' = <<>>
       /\ UNCHANGED <<currentStateRef, lastUpdateTimeRef, focusedTime,
                      distractedTime, awayTime, awayStartTime,
                      awayNotificationShown, lastEv>>]_vars

C27_Witness ==
  /\ sessionActive
  /\ cb.sessionActive
  /\ isInitialized
  /\ lastOp = "frameSkipped"
  /\ results = NullResult
  /\ resultTime = lastUpdateTimeRef
  /\ now = lastUpdateTimeRef + FrameStep
  /\ currentStateRef = "focused"

\* C28: a detection event with faceDetected = true and no confidence field is
\* treated as faceDetected = false: after updateFocusState has processed it
\* the classification is Away, not Focused or Distracted.
C28_MissingConfidenceIsAway ==
  (lastOp = "update" /\ Truthy(lastEv, "faceDetected")
     /\ ~Has(lastEv, "confidence"))
    => currentStateRef = "away"

\* C29: every detection result the camera loop produces while a session is
\* active is processed by updateFocusState on the tracker's current state,
\* whether the camera or the session was started first and across stops and
\* starts of sessions under a running camera loop.
C29_ActiveSessionSeesEveryResult ==
  [][(sessionActive /\ cameraOn /\ lastOp' \in {"update", "frameIgnored"}) =>
       /\ lastOp' = "update"
       /\ cb.awayStartTime = awayStartTime
       /\ cb.awayNotificationShown = awayNotificationShown]_vars

\* C30: in every state of an active session the three accumulators add up to
\* lastUpdateTime - sessionStartTime (the time up to the most recent processed
\* detection update, the start time when none was processed), each of them
\* is >= 0, and within a session none of them ever decreases.
C30_AccumulatorsAccountAndGrow ==
  [][/\ sessionActive' =>
          /\ focusedTime' + distractedTime' + awayTime'
               = lastUpdateTimeRef' - sessionStartTime'
          /\ focusedTime' >= 0
          /\ distractedTime' >= 0
          /\ awayTime' >= 0
     /\ (sessionActive /\ sessionActive' /\ lastOp' # "start") =>
          /\ focusedTime' >= focusedTime
          /\ distractedTime' >= distractedTime
          /\ awayTime' >= awayTime]_vars

C30_Witness ==
  /\ sessionActive
  /\ lastOp = "update"
  /\ lastUpdateTimeRef = now
  /\ focusedTime > 0
  /\ awayTime > 0
  /\ focusedTime + distractedTime + awayTime = now - sessionStartTime

\* C31: in every reachable state the away guard is consistent: the
\* notification flag is set only while an away period is open (awayStartTime
\* set), and an away period is open only while the session is active and the
\* current classification is Away.
C31_AwayGuardConsistent ==
  /\ awayNotificationShown => awayStartTime # Null
  /\ awayStartTime # Null => (sessionActive /\ currentStateRef = "away")

\* C32: the "session complete" notification is emitted only by a tick of an
\* active session that brings remainingTime to 0; an explicit stop emits
\* nothing, and once the session has been stopped nothing emits it until the
\* next start.
C32_CompleteOnlyByZeroTick ==
  [][/\ (emitted' # <<>> /\ emitted'[1][1] = "complete") =>
          /\ sessionActive
          /\ lastOp' = "tickComplete"
          /\ remainingTime >= 1
          /\ remainingTime' = 0
     /\ lastOp' = "stop" => emitted' = <<>>]_vars

\* C33: stopSession changes only the active flag, the armed timers and the
\* away guard: sessionDuration, remainingTime, targetDuration, sessionType
\* and the three accumulators are left as they are by the stop and keep
\* those values for as long as no session is started.
C33_StopKeepsTheReadings ==
  [][(lastOp' = "stop" \/ (~sessionActive /\ ~sessionActive')) =>
       UNCHANGED <<sessionDuration, remainingTime, targetDuration, sessionType,
                   focusedTime, distractedTime, awayTime>>]_vars

\* C34: in an active session with remainingTime > 1 a tick and an
\* updateFocusState call at the same clock reading commute: taken in either
\* order they leave the same sessionDuration, remainingTime, accumulators,
\* classification, lastUpdateTime and away guard, and emit the same
\* notifications (the tick none, the update the same one or none).
C34_TickAndUpdateCommute ==
  /\ (probe.on /\ probe.restored /\ lastOp = "tick") =>
       /\ Readings = probe.first
       /\ emitted = <<>>
  /\ (probe.on /\ probe.restored /\ lastOp \in {"update", "frameIgnored"}) =>
       emitted = probe.notified
  /\ (probe.on /\ ~probe.restored /\ lastOp # "probe") =>
       lastOp \in {"tick", "update", "frameIgnored"}

C34_Witness ==
  /\ probe.on
  /\ probe.restored
  /\ lastOp = "tick"
  /\ Readings = probe.first
  /\ sessionDuration = probe.before.sessionDuration + 1
  /\ remainingTime = probe.before.remainingTime - 1
  /\ awayTime > probe.before.awayTime
  /\ currentStateRef = "focused"

\* C35: given the same starts, ticks, updateFocusState calls and explicit
\* stops at the same clock readings, with no countdown reaching zero, the
\* countdown hook and the early hook hold the same sessionActive,
\* sessionDuration, focusedTime, distractedTime, awayTime, classification
\* and lastUpdateTime, and their stopSession returns the same summary.
C35_CountdownHookExtendsEarlyHook ==
  ~EarlyAhead =>
    /\ early.sessionActive = sessionActive
    /\ early.sessionDuration = sessionDuration
    /\ early.focusedTime = focusedTime
    /\ early.distractedTime = distractedTime
    /\ early.awayTime = awayTime
    /\ early.currentStateRef = currentStateRef
    /\ early.lastUpdateTimeRef = lastUpdateTimeRef
    /\ lastOp = "stop" => early.returned = returned

C35_Witness ==
  /\ ~EarlyAhead
  /\ lastOp = "stop"
  /\ early.returned = returned
  /\ returned.duration = 2
  /\ returned.focusedTime > 0
  /\ returned.awayTime > 0
  /\ early.sessionDuration = sessionDuration

\* C36: FaceDetector.detect never raises; called on a detector that is not
\* initialized or has been disposed, or when the underlying detection call
\* fails, it returns a result with an empty faces list and faceDetected =
\* false.  After dispose the detector is uninitialized again, and initialize
\* on an initialized detector changes nothing.
C36_DetectNeverRaises ==
  [][/\ \A detections \in Detections, fails \in BOOLEAN :
          LET r == Detect(detections, fails).results IN
          /\ r = NullResult \/ (Has(r, "faces") /\ Has(r, "faceDetected"))
          /\ (~isInitialized \/ ~detector) =>
               (r # NullResult /\ r.faces = <<>> /\ ~r.faceDetected)
          /\ (fails /\ r # NullResult) => (r.faces = <<>> /\ ~r.faceDetected)
     /\ lastOp' = "detect" =>
          \E detections \in Detections, fails \in BOOLEAN :
            results' = Detect(detections, fails).results
     /\ lastOp' = "dispose" => (~isInitialized' /\ ~detector')
     /\ lastOp' = "initializeAgain" => UNCHANGED faceDetector]_vars

C36_Witness ==
  /\ lastOp = "detect"
  /\ ~isInitialized
  /\ ~detector
  /\ lastDetectionTime > 0
  /\ results # NullResult
  /\ results.faces = <<>>
  /\ ~results.faceDetected
  /\ results.timestamp = now

\* C37: the "session complete" notification emitted when a countdown reaches
\* zero names the type of the session that just completed, the type passed
\* to the startSession call of that session.
C37_CompleteNamesTheSession ==
  (lastOp = "tickComplete" /\ emitted # <<>> /\ emitted[1][1] = "complete")
    => (emitted[1][2] = lastCfg.type /\ emitted[1][2] = sessionType)

====
